---- MODULE Spec2Model ----
(***************************************************************************)
(* Model of Codes/utils.py: the DataLoader (directory scan, clip          *)
(* generator, lookups), the PSNR metric and the checkpoint save wrapper.  *)
(***************************************************************************)
EXTENDS Integers, Sequences, FiniteSets, TLC

VARIABLES
    fs,       \* the video folder on disk: entry name -> names of the files in it
    pc,       \* "new" before the DataLoader is constructed, "ready" after
    videos,   \* self.videos: video name -> [path, frame, length]
    keys,     \* the insertion order of self.videos
    gen,      \* the frame of video_clip_generator (its locals and position)
    call,     \* the operation called last, with its arguments
    ret,      \* what that operation returned, yielded or raised
    dirs,     \* the directories that exist where checkpoints go
    made,     \* directory -> how many times os.makedirs created it
    ckpt,     \* the checkpoints written: [save_path, global_step]
    gen_frames,  \* psnr_error's first argument, [batch][pixel]
    gt_frames,   \* psnr_error's second argument, [batch][pixel]
    psnr      \* what psnr_error returned for them

loaderVars == <<fs, pc, videos, keys, gen>>
saveVars == <<dirs, made, ckpt>>
psnrVars == <<gen_frames, gt_frames, psnr>>
vars == <<fs, pc, videos, keys, gen, call, ret, dirs, made, ckpt,
          gen_frames, gt_frames, psnr>>

(***************************************************************************)
(* Bounds of the model.                                                    *)
(***************************************************************************)
\* most *.jpg files a video directory holds
MaxFrames == 4
\* largest time_steps passed to __call__
MaxSteps == 2
\* most clips one generator is followed for
MaxYield == 3
\* largest global step a checkpoint is saved at
MaxStep == 2
\* largest batch psnr_error is applied to
MaxBatch == 2

(***************************************************************************)
(* Program constants.                                                      *)
(***************************************************************************)
\* def __call__(self, batch_size, time_steps, num_pred=1)
DefaultNumPred == 1
\* def __init__(self, video_folder, resize_height=256, resize_width=256)
DefaultResize == 256
\* a decoded image has 3 colour channels (output_shapes: clip_length * 3)
Channels == 3

(***************************************************************************)
(* File names and paths.  A name is [hidden, stem, ext]: the string       *)
(* "." (when hidden) + zero padded stem + "." + ext (when ext # "").      *)
(* A path is the sequence of its components, os.path.join appends one.    *)
(***************************************************************************)
Name(h, s, e) == [hidden |-> h, stem |-> s, ext |-> e]

ExtRank(e) == CASE e = "" -> 0 [] e = "jpg" -> 1 [] OTHER -> 2

\* Python's str order on names: '.' sorts before the digits, a prefix before
\* its extensions, 'j' before 't'
NameLess(a, b) ==
    \/ a.hidden /\ ~b.hidden
    \/ a.hidden = b.hidden /\ a.stem < b.stem
    \/ a.hidden = b.hidden /\ a.stem = b.stem /\ ExtRank(a.ext) < ExtRank(b.ext)

Last(p) == p[Len(p)]

\* str order on two paths of one directory
PathLess(p, q) == NameLess(Last(p), Last(q))

\* the video folder handed to the constructor
VideoFolder == <<Name(FALSE, 0, "")>>

\* the entries a video folder may hold: two video directories and a dot file
VideoDirs == {Name(FALSE, 1, ""), Name(FALSE, 2, "")}
DotFile == Name(TRUE, 1, "")
VideoEntries == VideoDirs \cup {DotFile}

\* the names that are looked up; the dot file, and a directory the folder
\* lacks, are names the table does not have
LookupNames == VideoEntries

JpgFiles(n) == {Name(FALSE, i, "jpg") : i \in 1..n}

TxtFile == Name(FALSE, 1, "txt")

\* the contents a video directory may have: frames 1..n, maybe a non-jpg file
DirContents == {JpgFiles(n) \cup t : n \in 0..MaxFrames, t \in {{}, {TxtFile}}}

\* a dot file has no entries of its own
WithDotFile(f) == [e \in DOMAIN f \cup {DotFile} |-> IF e = DotFile THEN {} ELSE f[e]]

FileSystems ==
    LET plain == UNION {[D -> DirContents] : D \in SUBSET VideoDirs}
    IN plain \cup {WithDotFile(f) : f \in plain}

(***************************************************************************)
(* Library calls the loader relies on.                                     *)
(***************************************************************************)
\* fnmatch of a name against the patterns the code uses: '*' never matches a
\* leading dot, '*.jpg' asks for the extension as well
Matches(name, pattern) ==
    /\ ~name.hidden
    /\ pattern = "*.jpg" => name.ext = "jpg"

\* the entries of directory dir (a path); a path that is no directory has none
Entries(dir) ==
    IF dir = VideoFolder THEN DOMAIN fs
    ELSE IF Len(dir) = 2 /\ dir[1] = VideoFolder[1] /\ dir[2] \in DOMAIN fs THEN fs[dir[2]]
    ELSE {}

RECURSIVE Ascending(_)
\* the paths of set S as a list in ascending str order
Ascending(S) ==
    IF S = {} THEN <<>>
    ELSE LET m == CHOOSE x \in S : \A y \in S \ {x} : PathLess(x, y)
         IN <<m>> \o Ascending(S \ {m})

Reverse(s) == [i \in 1..Len(s) |-> s[Len(s) + 1 - i]]

\* the orders in which a directory listing may come back
ListingOrders == {"asc", "desc"}

\* glob.glob(os.path.join(dir, pattern)): the matching paths, in the order the
\* directory listing gives them (arbitrary; order picks one)
Glob(dir, pattern, order) ==
    LET found == {Append(dir, n) : n \in {e \in Entries(dir) : Matches(e, pattern)}}
    IN IF order = "asc" THEN Ascending(found) ELSE Reverse(Ascending(found))

RECURSIVE Insert(_, _)
\* x put into the ascending list s
Insert(x, s) ==
    IF s = <<>> THEN <<x>>
    ELSE IF PathLess(x, Head(s)) THEN <<x>> \o s
    ELSE <<Head(s)>> \o Insert(x, Tail(s))

\* the list left as it came
NotSorted(s) == s

RECURSIVE Sorted(_)
\* sorted(list) and list.sort(): the elements in ascending str order
Sorted(s) == IF s = <<>> THEN <<>> ELSE Insert(Head(s), Sorted(Tail(s)))

\* str.split('/')[-1] of a path
SplitLast(path) == Last(path)

\* numpy RandomState.randint(low, high): the values it can return, none when
\* low >= high (it raises ValueError then)
RandInt(low, high) == {i \in low..(high - 1) : TRUE}

\* list[i] in Python: a negative index counts from the end
InRange(s, i) == -Len(s) <= i /\ i < Len(s)
PyIndex(s, i) == IF i < 0 THEN s[Len(s) + i + 1] ELSE s[i + 1]

\* range(a, b) as a list
Range(a, b) == [i \in 1..(IF b > a THEN b - a ELSE 0) |-> a + i - 1]

\* np_load_frame(filename, resize_height, resize_width): the decoded image
\* resized to height x width; its 3 channels are named by file and channel
np_load_frame(filename, resize_height, resize_width) ==
    [height |-> resize_height, width |-> resize_width,
     chans |-> [c \in 1..Channels |-> <<filename, c - 1>>]]

RECURSIVE ConcatChans(_)
ConcatChans(images) ==
    IF images = <<>> THEN <<>>
    ELSE Head(images).chans \o ConcatChans(Tail(images))

\* the images joined last to first
ConcatenateReversed(images) ==
    [height |-> images[1].height, width |-> images[1].width,
     chans |-> ConcatChans(Reverse(images))]

\* np.concatenate(images, axis=2) of a non-empty list of equally sized images
Concatenate(images) ==
    [height |-> images[1].height, width |-> images[1].width,
     chans |-> ConcatChans(images)]

(***************************************************************************)
(* DataLoader.                                                             *)
(***************************************************************************)
RECURSIVE SetupLoop(_, _, _)
\* the for loop of setup over the sorted video paths: tbl is self.videos (with
\* its insertion order in ks)
SetupLoop(vs, tbl, order) ==
    IF vs = <<>> THEN tbl
    ELSE LET video == Head(vs)
             video_name == SplitLast(video)
             frame == Sorted(Glob(video, "*.jpg", order))
             info == [path |-> video, frame |-> frame, length |-> Len(frame)]
             known == \E i \in 1..Len(tbl.ks) : tbl.ks[i] = video_name
         IN SetupLoop(Tail(vs),
                      [t |-> [n \in DOMAIN tbl.t \cup {video_name} |->
                                 IF n = video_name THEN info ELSE tbl.t[n]],
                       ks |-> IF known THEN tbl.ks ELSE Append(tbl.ks, video_name)],
                      order)

\* DataLoader.setup(): the table it leaves in self.videos
SetupTable(order) ==
    SetupLoop(Sorted(Glob(VideoFolder, "*", order)), [t |-> <<>>, ks |-> <<>>], order)

NoRet == [kind |-> "none"]
NoGen == [status |-> "none"]
Raise(exc) == [kind |-> "raise", exc |-> exc]

\* DataLoader(video_folder): __init__ followed by setup
Construct ==
    /\ pc = "new"
    /\ \E order \in ListingOrders :
          LET tbl == SetupTable(order)
          IN /\ videos' = tbl.t
             /\ keys' = tbl.ks
    /\ pc' = "ready"
    /\ call' = [op |-> "init"]
    /\ ret' = NoRet
    /\ UNCHANGED <<fs, gen, saveVars, psnrVars>>

\* list(self.videos.values())
Values == [i \in 1..Len(keys) |-> videos[keys[i]]]

\* loader(batch_size, time_steps, num_pred): builds the dataset around a new
\* generator; nothing of the generator body runs yet
Call(batch_size, time_steps, num_pred) ==
    /\ pc = "ready"
    /\ LET clip_length == time_steps + num_pred
       IN gen' = [status |-> "created",
                  video_info_list |-> Values,
                  num_videos |-> Len(Values),
                  time_steps |-> time_steps,
                  num_pred |-> num_pred,
                  clip_length |-> clip_length,
                  output_shapes |-> <<DefaultResize, DefaultResize, clip_length * 3>>,
                  v_id |-> -1, start |-> -1, yielded |-> 0]
    /\ call' = [op |-> "call", batch_size |-> batch_size, time_steps |-> time_steps,
                 num_pred |-> num_pred]
    /\ ret' = [kind |-> "dataset"]
    /\ UNCHANGED <<fs, pc, videos, keys, saveVars, psnrVars>>

\* a step of two
SkipVideo(v_id, num_videos) == (v_id + 2) % num_videos

\* v_id = (v_id + 1) % num_videos, for num_videos > 0
NextVideo(v_id, num_videos) == (v_id + 1) % num_videos

\* a draw that may come out below 0
StartsFromBelow(video_info, clip_length) ==
    RandInt(-1, video_info.length - clip_length)

\* a draw that may come out as length - clip_length
StartsInclusive(video_info, clip_length) ==
    RandInt(0, video_info.length - clip_length + 1)

\* start = rng.randint(0, video_info['length'] - clip_length): the values start
\* can take
Starts(video_info, clip_length) == RandInt(0, video_info.length - clip_length)

\* the frames video_clip_generator loads for one clip (lines 42-44)
ClipFrames(video_info, start, clip_length) ==
    LET ids == Range(start, start + clip_length)
    IN [k \in 1..Len(ids) |->
           np_load_frame(PyIndex(video_info.frame, ids[k]), DefaultResize, DefaultResize)]

\* one resumption of video_clip_generator: a pass of the while loop up to the
\* yield, or up to the exception that ends the generator
GenNext ==
    /\ gen.status \in {"created", "suspended"}
    /\ gen.yielded < MaxYield
    /\ call' = [op |-> "next"]
    /\ IF gen.num_videos = 0
       THEN /\ gen' = [gen EXCEPT !.status = "failed"]
            /\ ret' = Raise("ZeroDivisionError")
       ELSE LET v_id == NextVideo(gen.v_id, gen.num_videos)
                video_info == gen.video_info_list[v_id + 1]
                starts == Starts(video_info, gen.clip_length)
            IN IF starts = {}
               THEN /\ gen' = [gen EXCEPT !.status = "failed", !.v_id = v_id]
                    /\ ret' = Raise("ValueError")
               ELSE \E start \in starts :
                      LET ids == Range(start, start + gen.clip_length)
                      IN IF \E k \in 1..Len(ids) : ~InRange(video_info.frame, ids[k])
                         THEN /\ gen' = [gen EXCEPT !.status = "failed", !.v_id = v_id,
                                                    !.start = start]
                              /\ ret' = Raise("IndexError")
                         ELSE IF Len(ids) = 0
                         THEN /\ gen' = [gen EXCEPT !.status = "failed", !.v_id = v_id,
                                                    !.start = start]
                              /\ ret' = Raise("ValueError")
                         ELSE /\ gen' = [gen EXCEPT !.status = "suspended", !.v_id = v_id,
                                                    !.start = start,
                                                    !.yielded = gen.yielded + 1]
                              /\ ret' = [kind |-> "yield",
                                         value |-> Concatenate(
                                            ClipFrames(video_info, start, gen.clip_length))]
    /\ UNCHANGED <<fs, pc, videos, keys, saveVars, psnrVars>>

\* the assert left out: the subscript raises KeyError
LookupNoAssert(video_name) ==
    IF video_name \in DOMAIN videos
    THEN [kind |-> "return", value |-> videos[video_name]]
    ELSE Raise("KeyError")

\* the outcome of __getitem__: the assert, then self.videos[video_name]
Lookup(video_name) ==
    IF video_name \in DOMAIN videos
    THEN [kind |-> "return", value |-> videos[video_name]]
    ELSE Raise("AssertionError")

\* loader[video_name]
GetItem(video_name) ==
    /\ pc = "ready"
    /\ call' = [op |-> "getitem", video_name |-> video_name]
    /\ ret' = Lookup(video_name)
    /\ UNCHANGED <<fs, pc, videos, keys, gen, saveVars, psnrVars>>

\* loader.get_video_clips(video, start, end)
GetVideoClips(video, start, end) ==
    /\ pc = "ready"
    /\ call' = [op |-> "get_video_clips", video |-> video, start |-> start, end |-> end]
    /\ ret' = IF video \notin DOMAIN videos THEN Raise("KeyError")
              ELSE LET ids == Range(start, end)
                       frame == videos[video].frame
                   IN IF \E k \in 1..Len(ids) : ~InRange(frame, ids[k])
                      THEN Raise("IndexError")
                      ELSE IF Len(ids) = 0 THEN Raise("ValueError")
                      ELSE [kind |-> "return",
                            value |-> Concatenate(
                               [k \in 1..Len(ids) |->
                                  np_load_frame(PyIndex(frame, ids[k]),
                                                DefaultResize, DefaultResize)])]
    /\ UNCHANGED <<fs, pc, videos, keys, gen, saveVars, psnrVars>>

\* the batch sizes asked for (batching is the framework's, outside the model)
BatchSizes == {4}

\* the [start, end) ranges get_video_clips is asked for: an empty one, one that
\* counts from the end, and the first two frames
ClipRanges == {<<0, 0>>, <<-1, 0>>, <<0, 2>>}

\* no DataLoader, no checkpoint directory, no metric evaluated
NoLoader == pc = "new" /\ fs = <<>> /\ videos = <<>> /\ keys = <<>> /\ gen = NoGen
NoSave == dirs = {} /\ made = <<>> /\ ckpt = {}
NoPsnr == gen_frames = <<>> /\ gt_frames = <<>> /\ psnr = NoRet

Init ==
    /\ fs \in FileSystems
    /\ pc = "new"
    /\ videos = <<>>
    /\ keys = <<>>
    /\ gen = NoGen
    /\ call = [op |-> "none"]
    /\ ret = NoRet
    /\ NoSave
    /\ NoPsnr

Next ==
    \/ Construct
    \/ \E batch_size \in BatchSizes, time_steps \in 0..MaxSteps, num_pred \in 0..DefaultNumPred :
          Call(batch_size, time_steps, num_pred)
    \/ GenNext
    \/ \E video_name \in LookupNames : GetItem(video_name)
    \/ \E video \in LookupNames, r \in ClipRanges : GetVideoClips(video, r[1], r[2])

Spec == Init /\ [][Next]_vars

(***************************************************************************)
(* save(saver, sess, logdir, step).  A directory is the sequence of its    *)
(* path components.                                                        *)
(***************************************************************************)
\* the directories save is asked to write to, one nested in the other
LogDirs == {<<"log">>, <<"log", "run">>}

Prefixes(path) == {SubSeq(path, 1, n) : n \in 1..Len(path)}

\* os.path.exists(path)
Exists(path) == path \in dirs

\* the test left out
AlwaysCreate(logdir) == TRUE

\* the test of line 194
MustCreate(logdir) == ~Exists(logdir)

\* os.path.join(logdir, model_name)
CheckpointPath(logdir) == Append(logdir, "model.ckpt")

\* save(saver, sess, logdir, step): os.makedirs creates logdir and its missing
\* parents and raises FileExistsError when logdir is there already; saver.save
\* then writes the checkpoint
Save(logdir, step) ==
    /\ call' = [op |-> "save", logdir |-> logdir, step |-> step]
    /\ IF MustCreate(logdir)
       THEN IF Exists(logdir)
            THEN /\ ret' = Raise("FileExistsError")
                 /\ UNCHANGED <<dirs, made, ckpt>>
            ELSE /\ dirs' = dirs \cup Prefixes(logdir)
                 /\ made' = [d \in DOMAIN made |->
                               IF d \in Prefixes(logdir) \ dirs THEN made[d] + 1 ELSE made[d]]
                 /\ ckpt' = ckpt \cup {[save_path |-> CheckpointPath(logdir),
                                        global_step |-> step]}
                 /\ ret' = [kind |-> "return", value |-> "None"]
       ELSE /\ ckpt' = ckpt \cup {[save_path |-> CheckpointPath(logdir),
                                   global_step |-> step]}
            /\ ret' = [kind |-> "return", value |-> "None"]
            /\ UNCHANGED <<dirs, made>>
    /\ UNCHANGED <<loaderVars, psnrVars>>

AllDirs == UNION {Prefixes(d) : d \in LogDirs}

InitSave ==
    /\ dirs \in {D \in SUBSET AllDirs : \A d \in D : Prefixes(d) \subseteq D}
    /\ made = [d \in AllDirs |-> 0]
    /\ ckpt = {}
    /\ call = [op |-> "none"]
    /\ ret = NoRet
    /\ NoLoader
    /\ NoPsnr

NextSave == \E logdir \in LogDirs, step \in 0..MaxStep : Save(logdir, step)

SpecSave == InitSave /\ [][NextSave]_vars

(***************************************************************************)
(* psnr_error(gen_frames, gt_frames).  Tensor elements are exact rationals *)
(* <<numerator, denominator>>; <<1, 0>> is +inf, what a division by 0.0    *)
(* gives.  A logarithm is kept as the term coef * log10(arg).              *)
(***************************************************************************)
RECURSIVE Gcd(_, _)
Gcd(a, b) == IF b = 0 THEN a ELSE Gcd(b, a % b)

Abs(x) == IF x < 0 THEN -x ELSE x

Rat(n, d) ==
    IF d = 0 THEN <<1, 0>>
    ELSE LET g == Gcd(Abs(n), Abs(d))
             sg == IF d < 0 THEN -1 ELSE 1
         IN <<sg * (n \div g), sg * (d \div g)>>

RAdd(x, y) == IF x[2] = 0 \/ y[2] = 0 THEN <<1, 0>>
              ELSE Rat(x[1] * y[2] + y[1] * x[2], x[2] * y[2])
RSub(x, y) == Rat(x[1] * y[2] - y[1] * x[2], x[2] * y[2])
RMul(x, y) == Rat(x[1] * y[1], x[2] * y[2])
RDiv(x, y) == IF y[1] = 0 THEN <<1, 0>> ELSE Rat(x[1] * y[2], x[2] * y[1])
RInt(n) == <<n, 1>>

\* the pixel values drawn for the frames: black and white on the [-1, 1] scale
PixelValues == {-1, 1}

\* [height, width, channels] of the frames drawn: a row of two gray pixels
FrameShape == <<1, 2, 1>>

RECURSIVE SumSeq(_)
SumSeq(s) == IF s = <<>> THEN RInt(0) ELSE RAdd(Head(s), SumSeq(Tail(s)))

RECURSIVE ProdSeq(_)
ProdSeq(s) == IF s = <<>> THEN RInt(1) ELSE RMul(Head(s), ProdSeq(Tail(s)))

\* the rescaling left out
NoRescale(x) == x

\* (t + 1.0) / 2.0 on one element
Rescale(x) == RDiv(RAdd(x, RInt(1)), RInt(2))

\* tf.square(gt_frames - gen_frames) on one element
SquareDiff(gt, gn) == LET d == RSub(gt, gn) IN RMul(d, d)

\* num_pixels = tf.to_float(shape[1] * shape[2] * shape[3])
NumPixels(shape) == RInt(shape[2] * shape[3] * shape[4])

\* log10(t): tf.log(t) / tf.log(10)
log10(t) == [coef |-> RInt(1), arg |-> t]

\* c * l for a logarithm term l
Scale(c, l) == [coef |-> RMul(c, l.coef), arg |-> l.arg]

\* tf.reduce_mean of logarithm terms of one coefficient:
\* (c log a + c log b) / 2 = (c / 2) log(a b)
ReduceMean(ls) ==
    [coef |-> RDiv(ls[1].coef, RInt(Len(ls))),
     arg |-> ProdSeq([i \in 1..Len(ls) |-> ls[i].arg])]

\* tf.shape of a tensor [batch][pixel] of frames of FrameShape
ShapeOf(t) == <<Len(t)>> \o FrameShape

\* psnr_error(gen, gt), lines 123-130
psnr_error(gn, gt) ==
    LET shape == ShapeOf(gn)
        num_pixels == NumPixels(shape)
        gt2 == [b \in 1..Len(gt) |-> [p \in 1..Len(gt[b]) |-> Rescale(RInt(gt[b][p]))]]
        gn2 == [b \in 1..Len(gn) |-> [p \in 1..Len(gn[b]) |-> Rescale(RInt(gn[b][p]))]]
        square_diff == [b \in 1..Len(gt2) |->
                          [p \in 1..Len(gt2[b]) |-> SquareDiff(gt2[b][p], gn2[b][p])]]
        batch_errors == [b \in 1..Len(square_diff) |->
                           Scale(RInt(10),
                                 log10(RDiv(RInt(1),
                                            RMul(RDiv(RInt(1), num_pixels),
                                                 SumSeq(square_diff[b])))))]
    IN ReduceMean(batch_errors)

\* the metric is evaluated on the two tensors
Psnr ==
    /\ psnr = NoRet
    /\ psnr' = [kind |-> "return", value |-> psnr_error(gen_frames, gt_frames)]
    /\ call' = [op |-> "psnr_error"]
    /\ UNCHANGED <<gen_frames, gt_frames, ret, loaderVars, saveVars>>

\* the tensors of shape [batch] + FrameShape over PixelValues
Tensors(batch) ==
    [1..batch -> [1..(FrameShape[1] * FrameShape[2] * FrameShape[3]) ->
                     PixelValues]]

InitPsnr ==
    /\ \E batch \in 1..MaxBatch :
          /\ gen_frames \in Tensors(batch)
          /\ gt_frames \in Tensors(batch)
    /\ psnr = NoRet
    /\ call = [op |-> "none"]
    /\ ret = NoRet
    /\ NoLoader
    /\ NoSave

NextPsnr == Psnr

SpecPsnr == InitPsnr /\ [][NextPsnr]_vars

(***************************************************************************)
(* Properties of the DataLoader, checked under Spec.                       *)
(***************************************************************************)
\* the last operation was a resumption of the generator and it yielded a clip
Yielded == call.op = "next" /\ ret.kind = "yield"

\* the generator exists and can be resumed
Resumable == gen.status \in {"created", "suspended"}

\* the video the generator is at (v_id >= 0)
Current == gen.video_info_list[gen.v_id + 1]

\* the video whose turn is next (num_videos > 0)
Upcoming == gen.video_info_list[NextVideo(gen.v_id, gen.num_videos) + 1]

\* the file the k-th frame (k = 0, 1, ...) of a concatenated array was loaded from
FrameFile(array, k) == array.chans[Channels * k + 1][1]

\* C1: every yielded clip is made of exactly time_steps + num_pred frames of one
\* video, at the consecutive indices start .. start + clip_length - 1, all of
\* them within 0 .. length - 1 of that video
C1_ClipWithinVideo ==
    Yielded =>
        LET clip_length == gen.time_steps + gen.num_pred
        IN /\ Len(ret.value.chans) = Channels * clip_length
           /\ 0 <= gen.start
           /\ gen.start + clip_length - 1 <= Current.length - 1
           /\ Current.length = Len(Current.frame)
           /\ \A k \in 0..(clip_length - 1) :
                 /\ gen.start + k \in 0..(Current.length - 1)
                 /\ FrameFile(ret.value, k) = Current.frame[gen.start + k + 1]

\* a clip of two or more frames that starts past the first frame of the second video
C1_Witness ==
    /\ Yielded
    /\ gen.v_id = 1
    /\ gen.start >= 1
    /\ gen.clip_length >= 2

\* C2 (as claimed): whenever the turn of a video with clip_length <= length comes,
\* every window position 0 .. length - clip_length can be chosen and yielded
C2_EveryWindowCanBeYielded ==
    (Resumable /\ gen.yielded < MaxYield /\ gen.num_videos > 0) =>
        ((gen.clip_length >= 1 /\ gen.clip_length <= Upcoming.length) =>
            \A s \in 0..(Upcoming.length - gen.clip_length) :
                ENABLED (GenNext /\ gen'.start = s /\ ret'.kind = "yield"))

\* C3: a yielded clip has 3 * (time_steps + num_pred) channels, the shape the
\* dataset declares, and channels 3k .. 3k+2 are the channels of frame start + k
C3_ChannelLayout ==
    Yielded =>
        LET clip_length == gen.time_steps + gen.num_pred
            clip == ret.value
        IN /\ Len(clip.chans) = 3 * clip_length
           /\ <<clip.height, clip.width, Len(clip.chans)>> = gen.output_shapes
           /\ gen.output_shapes = <<DefaultResize, DefaultResize, clip_length * 3>>
           /\ \A k \in 0..(clip_length - 1) : \A c \in 0..2 :
                 clip.chans[3 * k + c + 1] = <<Current.frame[gen.start + k + 1], c>>

\* a clip of three frames
C3_Witness ==
    /\ Yielded
    /\ gen.clip_length = 3
    /\ Len(ret.value.chans) = 9

\* C5: __getitem__ returns the stored record of a scanned video and raises an
\* AssertionError for any other name, and leaves the table as it was
C5_GetItem ==
    /\ [](call.op = "getitem" =>
            IF call.video_name \in DOMAIN videos
            THEN /\ ret.kind = "return"
                 /\ ret.value = videos[call.video_name]
                 /\ ret.value.path = Append(VideoFolder, call.video_name)
                 /\ DOMAIN ret.value = {"path", "frame", "length"}
            ELSE ret = [kind |-> "raise", exc |-> "AssertionError"])
    /\ [][call'.op = "getitem" => videos' = videos /\ keys' = keys]_vars

\* both outcomes of __getitem__ happen
C5_Witness ==
    /\ call.op = "getitem"
    /\ call.video_name \in DOMAIN videos
    /\ ret.kind = "return"
    /\ ret.value.length >= 2

C5_WitnessMissing ==
    /\ call.op = "getitem"
    /\ call.video_name \notin DOMAIN videos
    /\ DOMAIN videos # {}

\* what setup is to leave for one video name, given the names that get an entry
TableOf(names) ==
    /\ DOMAIN videos = names
    /\ Len(keys) = Cardinality(names)
    /\ {keys[i] : i \in 1..Len(keys)} = names
    /\ \A name \in DOMAIN videos :
          LET v == videos[name]
          IN /\ Last(v.path) = name
             /\ v.path = Append(VideoFolder, name)
             /\ \A i \in 1..Len(v.frame) :
                   \E f \in fs[name] : f.ext = "jpg" /\ v.frame[i] = Append(v.path, f)
             /\ \A i \in 1..Len(v.frame) : \A j \in 1..Len(v.frame) :
                   i < j => PathLess(v.frame[i], v.frame[j])
             /\ v.length = Len(v.frame)

\* C7 (as claimed): after construction the table has one entry per entry of the
\* video folder, keyed by the last path component, each with only that
\* directory's *.jpg paths in ascending order and length = len(frame); no later
\* operation changes the table
C7_OneEntryPerFolderEntry ==
    /\ [](pc = "ready" => TableOf(DOMAIN fs))
    /\ [][pc = "ready" => videos' = videos /\ keys' = keys]_vars

\* C7 (amended): the same, with one entry per entry of the video folder whose
\* name does not start with a dot
C7_OneEntryPerVisibleEntry ==
    /\ [](pc = "ready" => TableOf({e \in DOMAIN fs : ~e.hidden}))
    /\ [][pc = "ready" => videos' = videos /\ keys' = keys]_vars

\* two videos scanned beside a dot entry, one directory holding a non-jpg file,
\* and a later operation has run
C7_Witness ==
    /\ pc = "ready"
    /\ call.op = "get_video_clips"
    /\ DotFile \in DOMAIN fs
    /\ Cardinality(DOMAIN videos) = 2
    /\ \E name \in DOMAIN videos : videos[name].length >= 3 /\ TxtFile \in fs[name]

\* the k-th clip (k = gen.yielded - 1) comes from video k mod num_videos of the
\* table, in the table's order
RoundRobin ==
    /\ gen.status # "none" => gen.video_info_list = Values
    /\ Yielded =>
          LET k == gen.yielded - 1
              video == videos[keys[(k % gen.num_videos) + 1]]
          IN /\ gen.v_id = k % gen.num_videos
             /\ \E i \in 1..video.length : FrameFile(ret.value, 0) = video.frame[i]
             /\ Current = video

EveryVideoLonger ==
    \A i \in 1..gen.num_videos : gen.video_info_list[i].length > gen.clip_length

\* the generator has not ended: every resumption so far yielded a clip
NeverEnds ==
    /\ gen.status # "failed"
    /\ call.op = "next" => ret.kind = "yield" /\ gen.status = "suspended"

\* C8 (as claimed): round-robin over the table (of at least one video, as
\* k mod num_videos takes for granted), and when every video has
\* length > time_steps + num_pred the generator never ends on its own
C8_RoundRobinNeverEnds ==
    /\ RoundRobin
    /\ (gen.status # "none" /\ gen.num_videos >= 1 /\ EveryVideoLonger) => NeverEnds

\* C8 (amended): round-robin over the table, and when there is at least one
\* video, time_steps + num_pred >= 1 and every video has
\* length > time_steps + num_pred, the generator never ends on its own
C8_RoundRobinNeverEndsPositive ==
    /\ RoundRobin
    /\ (gen.status # "none" /\ gen.num_videos >= 1 /\ gen.clip_length >= 1
          /\ EveryVideoLonger) => NeverEnds

\* the third clip of a generator over two videos
C8_Witness ==
    /\ Yielded
    /\ gen.num_videos = 2
    /\ gen.yielded = 3
    /\ EveryVideoLonger

Short(i) == gen.video_info_list[i].length <= gen.clip_length

\* the place (0, 1, ...) in the round-robin order of the first video with
\* length <= clip_length
FirstShort ==
    (CHOOSE i \in 1..gen.num_videos : Short(i) /\ \A j \in 1..(i - 1) : ~Short(j)) - 1

\* with no videos the generator fails on its first step
FailsAtOnce ==
    /\ gen.yielded = 0
    /\ gen.status # "suspended"
    /\ call.op = "next" => gen.status = "failed" /\ ret.kind = "raise"

\* clips are yielded for the videos before the first short one, then the
\* generator fails at its turn
FailsAtFirstShort ==
    LET b == FirstShort
    IN /\ gen.yielded <= b
       /\ Yielded => gen.v_id < b
       /\ gen.status = "failed" => gen.yielded = b /\ gen.v_id = b
       /\ (call.op = "next" /\ gen.status = "failed") =>
             ret = [kind |-> "raise", exc |-> "ValueError"]
       /\ (call.op = "next" /\ gen.status # "failed") => Yielded

\* C9 (as claimed): if some video has length <= time_steps + num_pred the
\* generator yields for the videos before it and fails at its turn, with no clip
\* for it or after it; with no videos it fails on its first step
C9_FailsAtShortVideo ==
    gen.status # "none" =>
        /\ gen.num_videos = 0 => FailsAtOnce
        /\ (gen.num_videos >= 1 /\ \E i \in 1..gen.num_videos : Short(i)) =>
              FailsAtFirstShort

\* C9 (amended): the same for time_steps + num_pred >= 1; with
\* time_steps + num_pred <= 0 the generator fails on its first step whatever the
\* videos are
C9_FailsAtShortVideoPositive ==
    gen.status # "none" =>
        /\ gen.num_videos = 0 => FailsAtOnce
        /\ (gen.num_videos >= 1 /\ gen.clip_length >= 1
              /\ \E i \in 1..gen.num_videos : Short(i)) => FailsAtFirstShort
        /\ (gen.num_videos >= 1 /\ gen.clip_length <= 0) =>
              FailsAtOnce /\ (gen.status = "failed" => gen.v_id = 0)

\* the generator failed at the second video, which has exactly clip_length
\* frames, after a clip of the first
C9_Witness ==
    /\ call.op = "next"
    /\ gen.status = "failed"
    /\ gen.num_videos = 2
    /\ gen.clip_length >= 1
    /\ gen.yielded = 1
    /\ gen.v_id = 1
    /\ Current.length = gen.clip_length

(***************************************************************************)
(* Properties of psnr_error, checked under SpecPsnr.                       *)
(***************************************************************************)
RECURSIVE SumInts(_)
SumInts(s) == IF s = <<>> THEN 0 ELSE Head(s) + SumInts(Tail(s))

\* 1 / MSE of frame i: with x and y rescaled to (x + 1) / 2 and (y + 1) / 2 a
\* squared difference is (x - y)^2 / 4, so 1 / MSE is
\* 4 * height * width * channels over the sum of the (x - y)^2
InverseMse(a, b, i) ==
    Rat(4 * FrameShape[1] * FrameShape[2] * FrameShape[3],
        SumInts([p \in 1..Len(a[i]) |-> (a[i][p] - b[i][p]) * (a[i][p] - b[i][p])]))

\* the mean over the batch of 10 * log10(1 / MSE), as coef * log10(arg)
MeanPsnr(a, b) ==
    [coef |-> Rat(10, Len(a)),
     arg |-> ProdSeq([i \in 1..Len(a) |-> InverseMse(a, b, i)])]

\* C4: psnr_error returns one scalar, the mean over the frames of the batch of
\* 10 * log10(1 / MSE) with MSE the sum of the squared differences of the
\* rescaled frames over height * width * channels, and swapping the two
\* arguments gives the same result
C4_MeanPsnrSymmetric ==
    psnr.kind = "return" =>
        /\ DOMAIN psnr.value = {"coef", "arg"}
        /\ psnr.value = MeanPsnr(gen_frames, gt_frames)
        /\ psnr.value = psnr_error(gt_frames, gen_frames)

\* a batch of two different frames, each differing from its ground truth,
\* by different amounts
C4_Witness ==
    /\ psnr.kind = "return"
    /\ Len(gen_frames) = 2
    /\ InverseMse(gen_frames, gt_frames, 1) = <<2, 1>>
    /\ InverseMse(gen_frames, gt_frames, 2) = <<1, 1>>
    /\ psnr.value = [coef |-> <<5, 1>>, arg |-> <<2, 1>>]

(***************************************************************************)
(* Properties of save, checked under SpecSave.                             *)
(***************************************************************************)
\* C6: save creates logdir only when it does not exist yet and in every case
\* then writes the checkpoint logdir/model.ckpt at global step = step; after a
\* save logdir exists, and an existing directory is never recreated or removed
C6_SaveCreatesOnlyMissing ==
    /\ [](call.op = "save" =>
            /\ ret.kind = "return"
            /\ call.logdir \in dirs
            /\ [save_path |-> Append(call.logdir, "model.ckpt"),
                global_step |-> call.step] \in ckpt)
    /\ [][/\ \A d \in dirs : d \in dirs' /\ made'[d] = made[d]
          /\ (call'.op = "save" /\ call'.logdir \notin dirs) =>
                made'[call'.logdir] = made[call'.logdir] + 1
          /\ ckpt \subseteq ckpt']_vars

\* a save into an existing directory after one that had to create its own
C6_Witness ==
    /\ call.op = "save"
    /\ call.logdir = <<"log">>
    /\ made[<<"log">>] = 0
    /\ made[<<"log", "run">>] = 1
    /\ Cardinality(ckpt) >= 3

====
